---- MODULE Spec2Model ----
(***************************************************************************)
(* Model of the video assembly and timing engine of general-reel-gen       *)
(* (src/edit.py): caption chunking (create_animated_subtitle_clips), the   *)
(* sequential dialogue track (concatenate_audioclips) and the compositor   *)
(* (create_video_with_audio).                                              *)
(*                                                                         *)
(* Times are Python floats.  A float is modelled as a binary floating-point*)
(* number with Precision significant bits and round-to-nearest-even, held  *)
(* as an integer count of quanta of 2^-FracBits second (CPython's float is *)
(* the same format with 53 significant bits).                              *)
(***************************************************************************)
EXTENDS Integers, Sequences, FiniteSets, TLC

VARIABLES
    call_pc,        \* create_animated_subtitle_clips called alone: "idle" | "call" | "returned"
    call_text,      \* its text argument
    call_duration,  \* its duration argument
    call_clips,     \* its return value
    \* create_video_with_audio
    pc,                     \* the statement the function is at
    USE_CHARACTER_IMAGES,   \* module configuration, read from the environment
    metadata,               \* audio_metadata.json: the manifest, with each audio file's duration
    background_duration,    \* duration of assets/background.mp4
    total_audio_duration,
    audio_clips,            \* the AudioFileClips of the first loop
    video_needed_duration,
    random_start_time,      \* an int
    warned,                 \* "Warning: Audio duration exceeds available background video!" printed
    background_video,       \* the background clip: subclip bounds, duration
    video_size,
    character_images,       \* speaker -> shape of the resized image array
    idx,                    \* index of the manifest entry the second loop is at
    current_time,
    all_clips,              \* the visual layers handed to CompositeVideoClip
    concatenated_audio,     \* the result of concatenate_audioclips(audio_clips)
    background_music,
    final_video,            \* the composite: whether made, its audio, its duration
    image_files,            \* the character image files that exist on disk
    music_duration,         \* duration of assets/background.mp3
    loops_needed,           \* copies of the music that were concatenated (0: not looped)
    open_handles,           \* the media handles opened and not closed
    failed_open,            \* number of the manifest entry whose audio file did not open (0: none)
    write_failed,           \* write_videofile raised
    output_folder,          \* the output folder was created by this call
    output_file,            \* the output video: "none" | "partial" | "complete"
    \* process_storyboard_audio
    audio_pc,               \* "idle" | "lines" | "returned"
    storyboard,             \* the scenes, each with its dialogue lines
    scene_pos,              \* position of the scene the outer loop is at
    line_idx,               \* lines of that scene already processed
    current_line,           \* lines processed in all
    audio_metadata,         \* the manifest being built
    synthesized,            \* the lines for which generate_audio returned
    saved_metadata,         \* the content written to audio_metadata.json
    \* the ledger
    ideas_json,             \* ideas.json: what kind of content it has, and its ideas
    \* generate_new_ideas
    gen_pc,                 \* "idle" | "setup" | "load" | "initial" | "rank" | "renumber" | "save" | "returned"
    existing_ideas,
    max_existing_id,
    initial_ideas,
    ranked_ideas,
    new_ideas,
    gen_result,             \* "none" | "true" | "false"
    file_before,            \* ideas.json as it was when generate_new_ideas was called
    \* a predict call under retry
    retry_pc,               \* "idle" | "call" | "attempt" | "sleep" | "returned" | "raised"
    retry_fn,               \* "_retry_predict" | "generate_audio_kokoro"
    client_ready,           \* the TTS client was initialised
    max_retries,
    attempt,                \* the loop variable
    predict_outcomes,       \* what the n-th predict call does: "ok" | "fail"
    attempts_made,          \* predict calls made
    waits,                  \* the arguments of the time.sleep calls, in order
    retry_result,           \* number of the predict call whose result was returned (0: none)
    \* run_pipeline
    run_pc,
    ideas_selected,         \* ideas.json as it was when the idea was selected
    idea_id,                \* the id run_pipeline selected (0: None)
    processed_id,           \* the id of the idea process_first_pending_idea took (0: none)
    lines_total,            \* dialogue lines of the storyboard
    voice_returned,         \* process_storyboard_audio has returned
    run_manifest,           \* the audio_metadata process_storyboard_audio returned
    video_calls,            \* the manifests create_video_with_audio was called with
    video_exists,           \* the video file create_video_with_audio returned exists
    status_writes,          \* the update_idea_status calls of the run, in order
    interrupted,            \* a KeyboardInterrupt was raised in the try block
    run_result              \* "none" | "true" | "false"

subVars == <<call_pc, call_text, call_duration, call_clips>>

videoVars == <<pc, USE_CHARACTER_IMAGES, metadata, background_duration,
               total_audio_duration, audio_clips, video_needed_duration,
               random_start_time, warned, background_video, video_size,
               character_images, idx, current_time, all_clips, concatenated_audio,
               background_music, final_video, image_files, music_duration,
               loops_needed, open_handles, failed_open, write_failed, output_folder,
               output_file>>

audioVars == <<audio_pc, storyboard, scene_pos, line_idx, current_line,
               audio_metadata, synthesized, saved_metadata>>

ledgerVars == <<ideas_json>>

ideasVars == <<gen_pc, existing_ideas, max_existing_id, initial_ideas, ranked_ideas,
               new_ideas, gen_result, file_before>>

retryVars == <<retry_pc, retry_fn, client_ready, max_retries, attempt,
               predict_outcomes, attempts_made, waits, retry_result>>

pipelineVars == <<run_pc, ideas_selected, idea_id, processed_id, lines_total,
                  voice_returned, run_manifest,
                  video_calls, video_exists, status_writes, interrupted, run_result>>

glueVars == <<ledgerVars, ideasVars, retryVars, pipelineVars>>

vars == <<subVars, videoVars, audioVars, glueVars>>

----------------------------------------------------------------------------
(* Bounds of the model *)

\* significant bits of a float
Precision == 5
\* longest text drawn over the two-letter alphabet {"a", " "}
MaxTextLen == 9
\* most entries of a manifest
MaxEntries == 3
\* most scenes of a storyboard
MaxScenes == 2
\* most dialogue lines of a scene
MaxLines == 2
\* most ideas in ideas.json before a call, and the largest id among them
MaxIdeas == 3
\* most ideas the text generation returns in one batch
MaxNewIdeas == 2
\* largest max_retries a retry helper is called with
MaxAttempts == 4

----------------------------------------------------------------------------
(* Python float arithmetic *)

Pow2(n) == 2 ^ n

\* quanta per second are 2^FracBits; every duration of the model (>= 1/4 s) is
\* a normal number of the format
FracBits == Precision + 1

Unit == Pow2(FracBits)

Abs(x) == IF x < 0 THEN 0 - x ELSE x

Min(a, b) == IF a <= b THEN a ELSE b

RECURSIVE SpacingFrom(_, _)
SpacingFrom(q, s) == IF q < Pow2(Precision) * s THEN s ELSE SpacingFrom(q, 2 * s)

\* the distance between neighbouring floats at magnitude q (in quanta)
Spacing(q) == SpacingFrom(q, 1)

\* num/den >= 0 rounded to the nearest float, ties to even
RoundRat(num, den) ==
    LET s == Spacing(num \div den)
        d == den * s
        m == num \div d
        r == num - m * d
        up == (2 * r > d) \/ (2 * r = d /\ m % 2 = 1)
    IN  (IF up THEN m + 1 ELSE m) * s

FRound(num, den) ==
    IF num >= 0 THEN RoundRat(num, den) ELSE 0 - RoundRat(0 - num, den)

\* a + b, a - b, a * b, a / b on floats
FAdd(a, b) == FRound(a + b, 1)

FSub(a, b) == FRound(a - b, 1)

FMul(a, b) == FRound(a * b, Unit)

FDiv(a, b) == FRound(a * Unit, b)

\* float(i) of an int i, and int(x) of a float x >= 0
ToFloat(i) == FRound(i * Unit, 1)

ToInt(x) == x \div Unit

\* the float nearest to n/d seconds
Sec(n, d) == FRound(n * Unit, d)

----------------------------------------------------------------------------
(* Text: a str is a sequence of one-character strings *)

Whitespace == {" "}

RECURSIVE SplitFrom(_, _, _, _)
SplitFrom(text, i, cur, acc) ==
    IF i > Len(text)
    THEN IF cur = <<>> THEN acc ELSE Append(acc, cur)
    ELSE IF text[i] \in Whitespace
         THEN SplitFrom(text, i + 1, <<>>, IF cur = <<>> THEN acc ELSE Append(acc, cur))
         ELSE SplitFrom(text, i + 1, Append(cur, text[i]), acc)

\* text.split(): the maximal runs of non-whitespace characters, in order
Split(text) == SplitFrom(text, 1, <<>>, <<>>)

RECURSIVE Join(_)
\* " ".join(words)
Join(words) ==
    IF Len(words) = 0 THEN <<>>
    ELSE IF Len(words) = 1 THEN words[1]
    ELSE words[1] \o <<" ">> \o Join(Tail(words))

\* texts of manifest entries
FiveWords == <<"a"," ","b"," ","c"," ","d"," ","e">>

\* "one two three four five six seven"
SevenWords ==
    <<"o","n","e"," ","t","w","o"," ","t","h","r","e","e"," ","f","o","u","r"," ",
      "f","i","v","e"," ","s","i","x"," ","s","e","v","e","n">>

\* nine and thirteen words, with leading, doubled and trailing blanks
NineWords ==
    <<" ","a"," ","b"," "," ","c"," ","d"," ","e"," ","f"," ","g"," ","h"," ","i"," ">>

ThirteenWords ==
    <<"a"," ","b"," ","c"," ","d"," ","e"," ","f"," ","g"," ","h"," ","i"," ",
      "j"," ","k"," ","l"," ","m">>

----------------------------------------------------------------------------
(* create_animated_subtitle_clips *)

WORDS_PER_LINE == 4

\* variant of WordSlice: the slice stops one word early, words[i:i + WORDS_PER_LINE - 1]
SliceDropsLast(words, i) == SubSeq(words, i + 1, Min(i + WORDS_PER_LINE - 1, Len(words)))

\* words[i:i + WORDS_PER_LINE], i counted from 0
WordSlice(words, i) == SubSeq(words, i + 1, Min(i + WORDS_PER_LINE, Len(words)))

RECURSIVE ChunksFrom(_, _)
ChunksFrom(words, i) ==
    IF i >= Len(words) THEN <<>>
    ELSE <<Join(WordSlice(words, i))>> \o ChunksFrom(words, i + WORDS_PER_LINE)

\* variant of Chunks: the loop stops before a last, shorter chunk
ChunksFullOnly(words) ==
    ChunksFrom(SubSeq(words, 1, (Len(words) \div WORDS_PER_LINE) * WORDS_PER_LINE), 0)

\* the loop "for i in range(0, num_words, WORDS_PER_LINE)"
Chunks(words) == ChunksFrom(words, 0)

\* variant of TimePerChunk: the duration is divided by the number of words
TimePerWord(duration, words, chunks) == FDiv(duration, ToFloat(Len(words)))

\* time_per_chunk = duration / len(chunks)
TimePerChunk(duration, words, chunks) == FDiv(duration, ToFloat(Len(chunks)))

\* the returned list of ImageClips: the image shows chunk, for time_per_chunk
create_animated_subtitle_clips(text, duration) ==
    LET words == Split(text)
        chunks == Chunks(words)
    IN  IF Len(words) = 0 THEN <<>>
        ELSE [k \in 1..Len(chunks) |->
                [text |-> chunks[k],
                 duration |-> TimePerChunk(duration, words, chunks),
                 position |-> "center"]]

----------------------------------------------------------------------------
(* Clips: the attributes of moviepy clips that the engine sets and reads *)

VIDEO_SPEED == 2

NoClip == [t_start |-> 0, t_end |-> 0, speed |-> 1, start |-> 0, duration |-> 0]

\* VideoFileClip(path) / AudioFileClip(path) of a file lasting d
FileClip(d) == [t_start |-> 0, t_end |-> d, speed |-> 1, start |-> 0, duration |-> d]

\* clip.subclip(t_start, t_end): the slice of the source, t_end - t_start long
subclip(clip, t_start, t_end) ==
    [clip EXCEPT !.t_start = t_start, !.t_end = t_end, !.duration = FSub(t_end, t_start)]

\* speedx(clip, factor): the same slice played factor times faster
speedx(clip, factor) ==
    [clip EXCEPT !.speed = factor, !.duration = FDiv(clip.duration, ToFloat(factor))]

set_duration(clip, t) == [clip EXCEPT !.duration = t]

set_start(clip, t) == [clip EXCEPT !.start = t]

\* clip.end
End(clip) == FAdd(clip.start, clip.duration)

RECURSIVE MaxEnd(_)
\* the duration of a composite: the latest end of its clips
MaxEnd(clips) ==
    IF Len(clips) = 0 THEN 0
    ELSE LET m == MaxEnd(Tail(clips))
             e == End(Head(clips))
         IN  IF e > m THEN e ELSE m

----------------------------------------------------------------------------
(* concatenate_audioclips *)

\* variant of AudioStart: current_time is advanced before the clip is placed
RECURSIVE StartAfterOwnClip(_, _)
StartAfterOwnClip(clips, i) ==
    IF i = 0 THEN 0 ELSE FAdd(StartAfterOwnClip(clips, i - 1), clips[i].duration)

\* current_time when the loop reaches clips[i]: the durations before it, added up
RECURSIVE AudioStart(_, _)
AudioStart(clips, i) ==
    IF i = 1 THEN 0 ELSE FAdd(AudioStart(clips, i - 1), clips[i - 1].duration)

\* None for no clips, else CompositeAudioClip(audio_clips_with_timing)
concatenate_audioclips(clips) ==
    [is_none |-> clips = <<>>,
     clips |-> [i \in 1..Len(clips) |-> set_start(clips[i], AudioStart(clips, i))]]

----------------------------------------------------------------------------
(* create_video_with_audio *)

PERSON_1 == "Person 1"

PERSON_2 == "Person 2"

\* frame size of assets/background.mp4, and the sizes of the two character images
BackgroundFrame == [width |-> 1080, height |-> 1920]

ImageFile == (PERSON_1 :> [width |-> 400, height |-> 800]) @@
             (PERSON_2 :> [width |-> 512, height |-> 512])

\* resize_image_pil(image_path, target_height): the shape of the returned array
resize_image_pil(img, target_height) ==
    LET aspect_ratio == FDiv(ToFloat(img.width), ToFloat(img.height))
    IN  [height |-> target_height,
         width |-> ToInt(FMul(ToFloat(target_height), aspect_ratio))]

\* variant of LoadedImages: both images are loaded whether their files exist or not
LoadedImagesUnchecked(use_images, present, size) ==
    IF use_images
    THEN LET char_height == ToInt(FMul(ToFloat(size.height), Sec(1, 4)))
         IN  [sp \in {PERSON_1, PERSON_2} |-> resize_image_pil(ImageFile[sp], char_height)]
    ELSE <<>>

\* character_images: the images whose files exist, resized to 25% of the frame height
LoadedImages(use_images, present, size) ==
    IF use_images
    THEN LET char_height == ToInt(FMul(ToFloat(size.height), Sec(1, 4)))
         IN  [sp \in present |-> resize_image_pil(ImageFile[sp], char_height)]
    ELSE <<>>

\* variant of InitialCursor: the timeline starts at the random start time
CursorAtRandomStart(start_time) == ToFloat(start_time)

\* current_time = 0
InitialCursor(start_time) == 0

\* variant of AfterFailedOpen: the failure is swallowed and the loop goes on
ContinueAfterFailedOpen(here) == here

\* AudioFileClip raises and nothing catches it: the call ends with the exception
AfterFailedOpen(here) == "raised"

\* variant of AddToTotal: the total is not advanced
KeepTotal(total, clip) == total

\* total_audio_duration += audio_clip.duration
AddToTotal(total, clip) == FAdd(total, clip.duration)

\* video_needed_duration = total_audio_duration / VIDEO_SPEED
VideoNeeded(total) == FDiv(total, ToFloat(VIDEO_SPEED))

\* variant of SubtitleStart: subtitle_current_time starts at 0 for every entry
SubtitleStartAtZero(cursor, subtitle_clips, k) ==
    IF k = 1 THEN 0 ELSE FMul(ToFloat(k - 1), subtitle_clips[1].duration)

\* variant of SubtitleStart: subtitle_current_time is not advanced
AllAtCursor(cursor, subtitle_clips, k) == cursor

\* subtitle_current_time when the inner loop reaches subtitle_clips[k]
RECURSIVE SubtitleStart(_, _, _)
SubtitleStart(cursor, subtitle_clips, k) ==
    IF k = 1 THEN cursor
    ELSE FAdd(SubtitleStart(cursor, subtitle_clips, k - 1), subtitle_clips[k - 1].duration)

\* variant of AdvanceCursor: current_time = subtitle_current_time
AdvanceToLastSubtitle(cursor, duration, subtitle_clips) ==
    SubtitleStart(cursor, subtitle_clips, Len(subtitle_clips) + 1)

\* current_time += duration
AdvanceCursor(cursor, duration, subtitle_clips) == FAdd(cursor, duration)

Center == [anchor |-> "center", x |-> 0, y |-> 0]

\* variant of CharacterStart: the character is placed at subtitle_current_time
CharacterAfterSubtitles(cursor, subtitle_clips) ==
    SubtitleStart(cursor, subtitle_clips, Len(subtitle_clips) + 1)

\* char_clip.set_start(current_time)
CharacterStart(cursor, subtitle_clips) == cursor

\* variant of CharacterPosition: the two corners are swapped
CharacterPositionSwapped(speaker, shape, size) ==
    [anchor |-> "xy",
     x |-> IF speaker = PERSON_1 THEN size.width - shape.width - 50 ELSE 50,
     y |-> size.height - shape.height - 50]

\* (x_pos, y_pos): lower-left for Person 1, lower-right otherwise
CharacterPosition(speaker, shape, size) ==
    [anchor |-> "xy",
     x |-> IF speaker = PERSON_1 THEN 50 ELSE size.width - shape.width - 50,
     y |-> size.height - shape.height - 50]

\* the layers one manifest entry adds to all_clips: its captions, then its character
EntryLayers(i, item, cursor, images, use_images, size) ==
    LET duration == item.audio_duration
        subtitle_clips == create_animated_subtitle_clips(item.text, duration)
        captions ==
            [k \in 1..Len(subtitle_clips) |->
                [kind |-> "caption", entry |-> i, chunk |-> k - 1,
                 start |-> SubtitleStart(cursor, subtitle_clips, k),
                 duration |-> subtitle_clips[k].duration,
                 content |-> subtitle_clips[k].text,
                 position |-> Center]]
        character ==
            IF use_images /\ item.speaker \in DOMAIN images
            THEN <<[kind |-> "character", entry |-> i, chunk |-> 0,
                    start |-> CharacterStart(cursor, subtitle_clips),
                    duration |-> duration,
                    content |-> <<item.speaker>>,
                    position |-> CharacterPosition(item.speaker, images[item.speaker],
                                                   size)]>>
            ELSE <<>>
    IN  captions \o character

----------------------------------------------------------------------------
(* Specification Spec: one call of create_video_with_audio *)

\* the manifest entries the model draws from
EntryPool ==
    {[scene_id |-> 1, speaker |-> PERSON_1, text |-> FiveWords, audio_duration |-> Sec(2, 1)],
     [scene_id |-> 1, speaker |-> PERSON_2, text |-> <<"a">>, audio_duration |-> Sec(3, 1)],
     [scene_id |-> 2, speaker |-> PERSON_1, text |-> <<" ", " ">>, audio_duration |-> Sec(3, 2)],
     [scene_id |-> 2, speaker |-> "Narrator", text |-> NineWords, audio_duration |-> Sec(25, 8)]}

\* every entry of a manifest is its own dialogue line
Manifests ==
    {m \in UNION {[1..n -> EntryPool] : n \in 0..MaxEntries} :
        \A i, j \in DOMAIN m : i # j => m[i] # m[j]}

\* the background videos: a short portrait one and a longer landscape one
BackgroundFiles ==
    {[duration |-> Sec(3, 1), size |-> BackgroundFrame],
     [duration |-> Sec(10, 1), size |-> [width |-> 1280, height |-> 1024]]}

BackgroundDurations == {f.duration : f \in BackgroundFiles}

MusicDurations == {Sec(2, 1), Sec(20, 1)}

NoAudio == [is_none |-> TRUE, clips |-> <<>>]

NoVideo == [made |-> FALSE, has_audio |-> FALSE, duration |-> 0]

NoFile == [kind |-> "missing", ideas |-> <<>>]

LedgerIdle == ideas_json = NoFile

IdeasIdle ==
    /\ gen_pc = "idle"
    /\ existing_ideas = <<>>
    /\ max_existing_id = 0
    /\ initial_ideas = <<>>
    /\ ranked_ideas = <<>>
    /\ new_ideas = <<>>
    /\ gen_result = "none"
    /\ file_before = NoFile

RetryIdle ==
    /\ retry_pc = "idle"
    /\ retry_fn = "_retry_predict"
    /\ client_ready = TRUE
    /\ max_retries = 0
    /\ attempt = 0
    /\ predict_outcomes = <<>>
    /\ attempts_made = 0
    /\ waits = <<>>
    /\ retry_result = 0

PipelineIdle ==
    /\ run_pc = "idle"
    /\ ideas_selected = NoFile
    /\ idea_id = 0
    /\ processed_id = 0
    /\ lines_total = 0
    /\ voice_returned = FALSE
    /\ run_manifest = <<>>
    /\ video_calls = <<>>
    /\ video_exists = FALSE
    /\ status_writes = <<>>
    /\ interrupted = FALSE
    /\ run_result = "none"

GlueIdle ==
    /\ LedgerIdle
    /\ IdeasIdle
    /\ RetryIdle
    /\ PipelineIdle

AudioIdle ==
    /\ audio_pc = "idle"
    /\ storyboard = <<>>
    /\ scene_pos = 0
    /\ line_idx = 0
    /\ current_line = 0
    /\ audio_metadata = <<>>
    /\ synthesized = {}
    /\ saved_metadata = <<>>

SubIdle ==
    /\ call_pc = "idle"
    /\ call_text = <<>>
    /\ call_duration = 0
    /\ call_clips = <<>>

Unassigned ==
    /\ background_duration = 0
    /\ total_audio_duration = 0
    /\ audio_clips = <<>>
    /\ video_needed_duration = 0
    /\ random_start_time = 0
    /\ warned = FALSE
    /\ background_video = NoClip
    /\ video_size = [width |-> 0, height |-> 0]
    /\ character_images = <<>>
    /\ idx = 0
    /\ current_time = 0
    /\ all_clips = <<>>
    /\ concatenated_audio = NoAudio
    /\ background_music = NoClip
    /\ final_video = NoVideo
    /\ image_files = {}
    /\ music_duration = 0
    /\ loops_needed = 0
    /\ open_handles = {}
    /\ failed_open = 0
    /\ write_failed = FALSE
    /\ output_folder = FALSE
    /\ output_file = "none"

VideoIdle ==
    /\ pc = "idle"
    /\ USE_CHARACTER_IMAGES = TRUE
    /\ metadata = <<>>
    /\ Unassigned

Init ==
    /\ SubIdle
    /\ AudioIdle
    /\ GlueIdle
    /\ pc = "start"
    /\ USE_CHARACTER_IMAGES \in BOOLEAN
    /\ metadata \in Manifests
    /\ Unassigned

\* lines 169-183: the manifest is loaded, the background video opened
OpenInputs ==
    /\ pc = "start"
    /\ \E d \in BackgroundDurations :
          /\ background_video' = FileClip(d)
          /\ background_duration' = d
    /\ total_audio_duration' = 0
    /\ audio_clips' = <<>>
    /\ open_handles' = open_handles \cup {<<"background", 0>>}
    /\ pc' = "sum_audio"
    /\ UNCHANGED <<subVars, audioVars, glueVars, USE_CHARACTER_IMAGES, metadata, video_needed_duration,
                   random_start_time, warned, video_size, character_images, idx,
                   current_time, all_clips, concatenated_audio, background_music,
                   final_video, image_files, music_duration, loops_needed,
                   failed_open, write_failed, output_folder, output_file>>

\* lines 185-189: one iteration of the loop that opens and sums the audio clips;
\* the entry's audio file opens, or AudioFileClip raises
SumAudio ==
    /\ pc = "sum_audio"
    /\ Len(audio_clips) < Len(metadata)
    /\ LET n == Len(audio_clips) + 1
           item == metadata[n]
           audio_clip == FileClip(item.audio_duration)
       IN  \/ /\ audio_clips' = Append(audio_clips, audio_clip)
              /\ total_audio_duration' = AddToTotal(total_audio_duration, audio_clip)
              /\ open_handles' = open_handles \cup {<<"audio", n>>}
              /\ UNCHANGED <<pc, failed_open>>
           \/ /\ failed_open' = n
              /\ pc' = AfterFailedOpen(pc)
              /\ UNCHANGED <<audio_clips, total_audio_duration, open_handles>>
    /\ UNCHANGED <<subVars, audioVars, glueVars, USE_CHARACTER_IMAGES, metadata, background_duration,
                   video_needed_duration, random_start_time, warned, background_video,
                   video_size, character_images, idx, current_time, all_clips,
                   concatenated_audio, background_music, final_video, image_files,
                   music_duration, loops_needed, write_failed, output_folder,
                   output_file>>

\* lines 191-215: the background segment is chosen, cut, sped up and stretched
SelectSegment ==
    /\ pc = "sum_audio"
    /\ Len(audio_clips) = Len(metadata)
    /\ LET needed == VideoNeeded(total_audio_duration)
           max_start_time == FSub(background_duration, needed)
       IN  /\ video_needed_duration' = needed
           /\ \/ /\ max_start_time > 0
                 /\ random_start_time' \in 0..ToInt(max_start_time)
                 /\ warned' = FALSE
              \/ /\ ~(max_start_time > 0)
                 /\ random_start_time' = 0
                 /\ warned' = TRUE
           /\ background_video' =
                 set_duration(
                     speedx(subclip(background_video,
                                    ToFloat(random_start_time'),
                                    FAdd(ToFloat(random_start_time'), needed)),
                            VIDEO_SPEED),
                     total_audio_duration)
    /\ video_size' \in {f.size : f \in {g \in BackgroundFiles :
                                              g.duration = background_duration}}
    /\ pc' = "load_characters"
    /\ UNCHANGED <<subVars, audioVars, glueVars, USE_CHARACTER_IMAGES, metadata, background_duration,
                   total_audio_duration, audio_clips, character_images, idx,
                   current_time, all_clips, concatenated_audio, background_music,
                   final_video, image_files, music_duration, loops_needed,
                   open_handles, failed_open, write_failed, output_folder, output_file>>

\* lines 217-243: the character images that exist are loaded and resized
LoadCharacters ==
    /\ pc = "load_characters"
    /\ \E present \in SUBSET {PERSON_1, PERSON_2} :
          /\ image_files' = present
          /\ character_images' = LoadedImages(USE_CHARACTER_IMAGES, present, video_size)
    /\ current_time' = InitialCursor(random_start_time)
    /\ idx' = 0
    /\ all_clips' = <<[kind |-> "background", entry |-> 0, chunk |-> 0,
                       start |-> background_video.start,
                       duration |-> background_video.duration,
                       content |-> <<>>, position |-> Center]>>
    /\ pc' = "segments"
    /\ UNCHANGED <<subVars, audioVars, glueVars, USE_CHARACTER_IMAGES, metadata, background_duration,
                   total_audio_duration, audio_clips, video_needed_duration,
                   random_start_time, warned, background_video, video_size,
                   concatenated_audio, background_music, final_video, music_duration,
                   loops_needed, open_handles, failed_open, write_failed,
                   output_folder, output_file>>

\* lines 245-286: one iteration of the loop over the manifest; the entry's audio
\* file is opened again, or AudioFileClip raises
Segment ==
    /\ pc = "segments"
    /\ idx < Len(metadata)
    /\ LET item == metadata[idx + 1]
           duration == FileClip(item.audio_duration).duration
           subtitle_clips == create_animated_subtitle_clips(item.text, duration)
       IN  \/ /\ all_clips' = all_clips \o EntryLayers(idx, item, current_time,
                                                       character_images,
                                                       USE_CHARACTER_IMAGES, video_size)
              /\ current_time' = AdvanceCursor(current_time, duration, subtitle_clips)
              /\ open_handles' = open_handles \cup {<<"segment_audio", idx + 1>>}
              /\ idx' = idx + 1
              /\ UNCHANGED <<pc, failed_open>>
           \/ /\ failed_open' = idx + 1
              /\ pc' = AfterFailedOpen(pc)
              /\ UNCHANGED <<all_clips, current_time, open_handles, idx>>
    /\ UNCHANGED <<subVars, audioVars, glueVars, USE_CHARACTER_IMAGES, metadata, background_duration,
                   total_audio_duration, audio_clips, video_needed_duration,
                   random_start_time, warned, background_video, video_size,
                   character_images, concatenated_audio, background_music, final_video,
                   image_files, music_duration, loops_needed, write_failed,
                   output_folder, output_file>>

\* lines 288-294: the visual layers are composited, the dialogue clips concatenated
Composite ==
    /\ pc = "segments"
    /\ idx = Len(metadata)
    /\ final_video' = [made |-> TRUE, has_audio |-> FALSE, duration |-> MaxEnd(all_clips)]
    /\ concatenated_audio' = concatenate_audioclips(audio_clips)
    /\ open_handles' = open_handles \cup {<<"final", 0>>}
    /\ pc' = "music"
    /\ UNCHANGED <<subVars, audioVars, glueVars, USE_CHARACTER_IMAGES, metadata, background_duration,
                   total_audio_duration, audio_clips, video_needed_duration,
                   random_start_time, warned, background_video, video_size,
                   character_images, idx, current_time, all_clips, background_music,
                   image_files, music_duration, loops_needed, failed_open,
                   write_failed, output_folder, output_file>>

RECURSIVE Repeat(_, _)
Repeat(x, n) == IF n = 0 THEN <<>> ELSE <<x>> \o Repeat(x, n - 1)

\* variant of LoopsNeeded: one copy fewer
LoopsNeededFloor(total, music) == ToInt(FDiv(total, music.duration))

\* loops_needed = int(total_audio_duration / background_music.duration) + 1
LoopsNeeded(total, music) == ToInt(FDiv(total, music.duration)) + 1

\* lines 296-306: the music is opened, looped if shorter than the dialogue, cut
LoopedMusic(music, total) ==
    LET looped ==
            IF music.duration < total
            THEN [music EXCEPT !.duration =
                     MaxEnd(concatenate_audioclips(
                                Repeat(music, LoopsNeeded(total, music))).clips)]
            ELSE music
    IN  subclip(looped, 0, total)

AddMusic ==
    /\ pc = "music"
    /\ \E d \in MusicDurations :
          /\ music_duration' = d
          /\ loops_needed' = IF d < total_audio_duration
                             THEN LoopsNeeded(total_audio_duration, FileClip(d))
                             ELSE 0
          /\ background_music' = LoopedMusic(FileClip(d), total_audio_duration)
    /\ open_handles' = open_handles \cup {<<"music", 0>>}
    /\ pc' = "mix"
    /\ UNCHANGED <<subVars, audioVars, glueVars, USE_CHARACTER_IMAGES, metadata, background_duration,
                   total_audio_duration, audio_clips, video_needed_duration,
                   random_start_time, warned, background_video, video_size,
                   character_images, idx, current_time, all_clips, concatenated_audio,
                   final_video, image_files, failed_open, write_failed, output_folder,
                   output_file>>

\* lines 308-313: dialogue and music are mixed and the output duration is set;
\* CompositeAudioClip raises on the None that stands for an empty dialogue track
MixAudio ==
    /\ pc = "mix"
    /\ \/ /\ concatenated_audio.is_none
          /\ pc' = "raised"
          /\ UNCHANGED final_video
       \/ /\ ~concatenated_audio.is_none
          /\ final_video' = [final_video EXCEPT !.has_audio = TRUE,
                                                !.duration = total_audio_duration]
          /\ pc' = "write"
    /\ UNCHANGED <<subVars, audioVars, glueVars, USE_CHARACTER_IMAGES, metadata, background_duration,
                   total_audio_duration, audio_clips, video_needed_duration,
                   random_start_time, warned, background_video, video_size,
                   character_images, idx, current_time, all_clips, concatenated_audio,
                   background_music, image_files, music_duration, loops_needed,
                   open_handles, failed_open, write_failed, output_folder, output_file>>

\* lines 315-318: the output folder is created
MakeOutputFolder ==
    /\ pc = "write"
    /\ output_folder' = TRUE
    /\ pc' = "encode"
    /\ UNCHANGED <<subVars, audioVars, glueVars, USE_CHARACTER_IMAGES, metadata, background_duration,
                   total_audio_duration, audio_clips, video_needed_duration,
                   random_start_time, warned, background_video, video_size,
                   character_images, idx, current_time, all_clips, concatenated_audio,
                   background_music, final_video, image_files, music_duration,
                   loops_needed, open_handles, failed_open, write_failed, output_file>>

\* lines 320-332: write_videofile encodes the output, or raises having written
\* nothing or a part of the file
WriteVideo ==
    /\ pc = "encode"
    /\ \/ /\ output_file' = "complete"
          /\ pc' = "cleanup"
          /\ UNCHANGED write_failed
       \/ /\ output_file' \in {"none", "partial"}
          /\ write_failed' = TRUE
          /\ pc' = "raised"
    /\ UNCHANGED <<subVars, audioVars, glueVars, USE_CHARACTER_IMAGES, metadata, background_duration,
                   total_audio_duration, audio_clips, video_needed_duration,
                   random_start_time, warned, background_video, video_size,
                   character_images, idx, current_time, all_clips, concatenated_audio,
                   background_music, final_video, image_files, music_duration,
                   loops_needed, open_handles, failed_open, output_folder>>

\* the handles lines 336-339 close: the clips of audio_clips, background_video, final_video
ClosedByCleanup(clips) ==
    {<<"audio", i>> : i \in 1..Len(clips)} \cup {<<"background", 0>>, <<"final", 0>>}

\* lines 334-347: cleanup after a successful write, and return
Cleanup ==
    /\ pc = "cleanup"
    /\ open_handles' = open_handles \ ClosedByCleanup(audio_clips)
    /\ pc' = "done"
    /\ UNCHANGED <<subVars, audioVars, glueVars, USE_CHARACTER_IMAGES, metadata, background_duration,
                   total_audio_duration, audio_clips, video_needed_duration,
                   random_start_time, warned, background_video, video_size,
                   character_images, idx, current_time, all_clips, concatenated_audio,
                   background_music, final_video, image_files, music_duration,
                   loops_needed, failed_open, write_failed, output_folder, output_file>>

Next ==
    \/ OpenInputs
    \/ SumAudio
    \/ SelectSegment
    \/ LoadCharacters
    \/ Segment
    \/ Composite
    \/ AddMusic
    \/ MixAudio
    \/ MakeOutputFolder
    \/ WriteVideo
    \/ Cleanup

Spec == Init /\ [][Next]_vars

----------------------------------------------------------------------------
(* Specification SpecSubtitles: create_animated_subtitle_clips on its own *)

Letters == {"a", " "}

AllTexts == UNION {[1..n -> Letters] : n \in 0..MaxTextLen}

CallTexts == AllTexts \cup {SevenWords, NineWords, ThirteenWords}

CallDurations ==
    {Sec(1, 1), Sec(3, 2), Sec(2, 1), Sec(3, 1), Sec(25, 8), Sec(7, 2), Sec(5, 1),
     Sec(25, 4), Sec(53, 8)}

InitSubtitles ==
    /\ VideoIdle
    /\ AudioIdle
    /\ GlueIdle
    /\ call_pc = "call"
    /\ call_text \in CallTexts
    /\ call_duration \in CallDurations
    /\ call_clips = <<>>

CallSubtitles ==
    /\ call_pc = "call"
    /\ call_clips' = create_animated_subtitle_clips(call_text, call_duration)
    /\ call_pc' = "returned"
    /\ UNCHANGED <<call_text, call_duration, videoVars, audioVars, glueVars>>

NextSubtitles == CallSubtitles

SpecSubtitles == InitSubtitles /\ [][NextSubtitles]_vars

----------------------------------------------------------------------------
(* Specification SpecAudio: one call of process_storyboard_audio *)

\* the k-th dialogue line of a scene: the two speakers take turns
DialogueAt(k) ==
    IF k % 2 = 1 THEN [speaker |-> PERSON_1, line |-> FiveWords]
                 ELSE [speaker |-> PERSON_2, line |-> <<"a">>]

\* a scene with n dialogue lines
Scene(id, n) == [scene_id |-> id, dialogue_lines |-> [k \in 1..n |-> DialogueAt(k)]]

\* the storyboards: up to MaxScenes scenes of up to MaxLines lines each
Storyboards ==
    UNION {{[p \in 1..n |-> Scene(p, counts[p])] : counts \in [1..n -> 0..MaxLines]} :
           n \in 0..MaxScenes}

InitAudio ==
    /\ SubIdle
    /\ VideoIdle
    /\ GlueIdle
    /\ audio_pc = "lines"
    /\ storyboard \in Storyboards
    /\ scene_pos = 1
    /\ line_idx = 0
    /\ current_line = 0
    /\ audio_metadata = <<>>
    /\ synthesized = {}
    /\ saved_metadata = <<>>

\* variant of StoreMetadata: the entry is put in front
StoreMetadataFirst(manifest, entry) == <<entry>> \o manifest

\* audio_metadata.append({...})
StoreMetadata(manifest, entry) == Append(manifest, entry)

\* lines 322-368: one dialogue line. generate_audio raises, or it returns and
\* naming or copying the file raises, or the line is stored; an exception
\* is caught and the loop continues
ProcessLine ==
    /\ audio_pc = "lines"
    /\ scene_pos <= Len(storyboard)
    /\ line_idx < Len(storyboard[scene_pos].dialogue_lines)
    /\ LET scene == storyboard[scene_pos]
           dialogue == scene.dialogue_lines[line_idx + 1]
           entry == [scene_id |-> scene.scene_id,
                     line_number |-> line_idx + 1,
                     speaker |-> dialogue.speaker,
                     text |-> dialogue.line]
       IN  \/ UNCHANGED <<audio_metadata, synthesized>>
           \/ /\ synthesized' = synthesized \cup {<<scene.scene_id, line_idx + 1>>}
              /\ UNCHANGED audio_metadata
           \/ /\ synthesized' = synthesized \cup {<<scene.scene_id, line_idx + 1>>}
              /\ audio_metadata' = StoreMetadata(audio_metadata, entry)
    /\ line_idx' = line_idx + 1
    /\ current_line' = current_line + 1
    /\ UNCHANGED <<subVars, videoVars, glueVars, audio_pc, storyboard, scene_pos, saved_metadata>>

\* lines 313-320, 370: the inner loop is over, the outer loop takes the next scene
NextScene ==
    /\ audio_pc = "lines"
    /\ scene_pos <= Len(storyboard)
    /\ line_idx = Len(storyboard[scene_pos].dialogue_lines)
    /\ scene_pos' = scene_pos + 1
    /\ line_idx' = 0
    /\ UNCHANGED <<subVars, videoVars, glueVars, audio_pc, storyboard, current_line,
                   audio_metadata, synthesized, saved_metadata>>

\* lines 372-384: the manifest is written to audio_metadata.json and returned
SaveMetadata ==
    /\ audio_pc = "lines"
    /\ scene_pos > Len(storyboard)
    /\ saved_metadata' = audio_metadata
    /\ audio_pc' = "returned"
    /\ UNCHANGED <<subVars, videoVars, glueVars, storyboard, scene_pos, line_idx, current_line,
                   audio_metadata, synthesized>>

NextAudio ==
    \/ ProcessLine
    \/ NextScene
    \/ SaveMetadata

SpecAudio == InitAudio /\ [][NextAudio]_vars

----------------------------------------------------------------------------
(* The ideas ledger: load_existing_ideas, renumber_and_append_ids, save_ideas_to_file *)

\* an idea as ideas.json holds it
Idea(id, title, status) ==
    [id |-> id, idea |-> title, publishing_status |-> status,
     final_output |-> "", error_log |-> ""]

\* max(idea.get('id', 0) for idea in existing_ideas)
RECURSIVE MaxIdOf(_)
MaxIdOf(ideas) ==
    IF Len(ideas) = 1 THEN ideas[1].id
    ELSE LET m == MaxIdOf(Tail(ideas))
         IN  IF ideas[1].id > m THEN ideas[1].id ELSE m

\* load_existing_ideas: a missing file, content that does not parse, content
\* that is not an array and an empty array all give ([], 0)
load_existing_ideas(file) ==
    IF file.kind # "array" \/ file.ideas = <<>>
    THEN [ideas |-> <<>>, max_id |-> 0]
    ELSE [ideas |-> file.ideas, max_id |-> MaxIdOf(file.ideas)]

\* variant of renumber_and_append_ids: the ideas keep the ids they came with
keep_ids(ideas, start_id) == ideas

\* renumber_and_append_ids: enumerate(new_ideas, start=start_id)
renumber_and_append_ids(ideas, start_id) ==
    [k \in 1..Len(ideas) |-> [ideas[k] EXCEPT !.id = start_id + k - 1]]

\* save_ideas_to_file: existing_ideas + new_ideas, written as a JSON array
save_ideas_to_file(existing, new) == [kind |-> "array", ideas |-> existing \o new]

----------------------------------------------------------------------------
(* Specification SpecIdeas: one call of generate_new_ideas *)

\* the ideas a file can hold: ids within 1..MaxIdeas, distinct or not
StoredIdeas ==
    UNION {{[k \in 1..n |-> Idea(ids[k], <<"stored", k>>, "completed")] :
               ids \in [1..n -> 1..MaxIdeas]} : n \in 0..MaxIdeas}

\* ideas.json: missing, a JSON array, a JSON object wrapping the ideas, or
\* text that does not parse
IdeaFiles ==
    {NoFile} \cup {[kind |-> k, ideas |-> ideas] :
                      k \in {"array", "object", "invalid"}, ideas \in StoredIdeas}

\* the batches the text generation returns: each idea numbered by the model
IdeaBatches ==
    UNION {{[k \in 1..n |-> Idea(ids[k], <<"generated", k>>, "pending")] :
               ids \in [1..n -> 1..2]} : n \in 1..MaxNewIdeas}

\* the ideas in the opposite order
Reversed(ideas) == [k \in 1..Len(ideas) |-> ideas[Len(ideas) + 1 - k]]

\* what rank_and_filter_ideas can return for a batch: nothing, the best idea
\* alone, or the batch in another order
Rankings(batch) == {<<>>, SubSeq(batch, 1, 1), Reversed(batch)}

InitIdeas ==
    /\ SubIdle
    /\ VideoIdle
    /\ AudioIdle
    /\ RetryIdle
    /\ PipelineIdle
    /\ ideas_json \in IdeaFiles
    /\ file_before = ideas_json
    /\ gen_pc = "setup"
    /\ existing_ideas = <<>>
    /\ max_existing_id = 0
    /\ initial_ideas = <<>>
    /\ ranked_ideas = <<>>
    /\ new_ideas = <<>>
    /\ gen_result = "none"

\* lines 213-220: a provider is set up, or none is available
SetupProvider ==
    /\ gen_pc = "setup"
    /\ \/ /\ gen_pc' = "load"
          /\ UNCHANGED gen_result
       \/ /\ gen_pc' = "returned"
          /\ gen_result' = "false"
    /\ UNCHANGED <<subVars, videoVars, audioVars, retryVars, pipelineVars, ledgerVars, existing_ideas,
                   max_existing_id, initial_ideas, ranked_ideas, new_ideas, file_before>>

\* lines 222-223
LoadExisting ==
    /\ gen_pc = "load"
    /\ existing_ideas' = load_existing_ideas(ideas_json).ideas
    /\ max_existing_id' = load_existing_ideas(ideas_json).max_id
    /\ gen_pc' = "initial"
    /\ UNCHANGED <<subVars, videoVars, audioVars, retryVars, pipelineVars, ledgerVars, initial_ideas,
                   ranked_ideas, new_ideas, gen_result, file_before>>

\* lines 225-231: generate_initial_ideas returns a batch, or nothing
GenerateInitial ==
    /\ gen_pc = "initial"
    /\ \/ /\ initial_ideas' \in IdeaBatches
          /\ gen_pc' = "rank"
          /\ UNCHANGED gen_result
       \/ /\ gen_pc' = "returned"
          /\ gen_result' = "false"
          /\ UNCHANGED initial_ideas
    /\ UNCHANGED <<subVars, videoVars, audioVars, retryVars, pipelineVars, ledgerVars, existing_ideas,
                   max_existing_id, ranked_ideas, new_ideas, file_before>>

\* lines 233-239: the ranking, replaced by the initial ideas when it is empty
RankAndFilter ==
    /\ gen_pc = "rank"
    /\ \E ranked \in Rankings(initial_ideas) :
          ranked_ideas' = IF ranked = <<>> THEN initial_ideas ELSE ranked
    /\ gen_pc' = "renumber"
    /\ UNCHANGED <<subVars, videoVars, audioVars, retryVars, pipelineVars, ledgerVars, existing_ideas,
                   max_existing_id, initial_ideas, new_ideas, gen_result, file_before>>

\* lines 241-243
Renumber ==
    /\ gen_pc = "renumber"
    /\ new_ideas' = renumber_and_append_ids(ranked_ideas, max_existing_id + 1)
    /\ gen_pc' = "save"
    /\ UNCHANGED <<subVars, videoVars, audioVars, retryVars, pipelineVars, ledgerVars, existing_ideas,
                   max_existing_id, initial_ideas, ranked_ideas, gen_result, file_before>>

\* lines 245-253: the combined list is written, or writing fails
SaveIdeas ==
    /\ gen_pc = "save"
    /\ \/ /\ ideas_json' = save_ideas_to_file(existing_ideas, new_ideas)
          /\ gen_result' = "true"
       \/ /\ gen_result' = "false"
          /\ UNCHANGED ideas_json
    /\ gen_pc' = "returned"
    /\ UNCHANGED <<subVars, videoVars, audioVars, retryVars, pipelineVars,
                   existing_ideas, max_existing_id, initial_ideas, ranked_ideas,
                   new_ideas, file_before>>

NextIdeas ==
    \/ SetupProvider
    \/ LoadExisting
    \/ GenerateInitial
    \/ RankAndFilter
    \/ Renumber
    \/ SaveIdeas

SpecIdeas == InitIdeas /\ [][NextIdeas]_vars

----------------------------------------------------------------------------
(* Specification SpecRetry: one predict call under retry *)

\* max_retries of generate_audio_kokoro, and the default of _retry_predict
DEFAULT_MAX_RETRIES == 3

\* variant of IsLastAttempt: no attempt is the last
NeverLastAttempt(n, retries) == n = retries

\* if attempt == max_retries - 1
IsLastAttempt(n, retries) == n = retries - 1

\* variant of WaitTime: a constant delay
WaitTimeConstant(n) == 1

\* wait_time = 2 ** attempt
WaitTime(n) == Pow2(n)

InitRetry ==
    /\ SubIdle
    /\ VideoIdle
    /\ AudioIdle
    /\ LedgerIdle
    /\ IdeasIdle
    /\ PipelineIdle
    /\ retry_pc = "call"
    /\ \/ /\ retry_fn = "_retry_predict"
          /\ client_ready = TRUE
          /\ max_retries \in 0..MaxAttempts
       \/ /\ retry_fn = "generate_audio_kokoro"
          /\ client_ready \in BOOLEAN
          /\ max_retries = DEFAULT_MAX_RETRIES
    /\ predict_outcomes \in [1..MaxAttempts -> {"ok", "fail"}]
    /\ attempt = 0
    /\ attempts_made = 0
    /\ waits = <<>>
    /\ retry_result = 0

\* lines 200-204 and line 84: generate_audio_kokoro raises without a client;
\* otherwise the loop over range(max_retries) is entered
EnterLoop ==
    /\ retry_pc = "call"
    /\ retry_pc' = IF retry_fn = "generate_audio_kokoro" /\ ~client_ready
                   THEN "raised" ELSE "attempt"
    /\ attempt' = 0
    /\ UNCHANGED <<subVars, videoVars, audioVars, ledgerVars, ideasVars, pipelineVars,
                   retry_fn, client_ready, max_retries, predict_outcomes,
                   attempts_made, waits, retry_result>>

\* lines 85-90 and 205-222: one predict call; its result is returned, or its
\* exception is raised again on the last attempt, or a wait is due
Attempt ==
    /\ retry_pc = "attempt"
    /\ attempt < max_retries
    /\ attempts_made' = attempts_made + 1
    /\ \/ /\ predict_outcomes[attempts_made + 1] = "ok"
          /\ retry_result' = attempts_made + 1
          /\ retry_pc' = "returned"
       \/ /\ predict_outcomes[attempts_made + 1] = "fail"
          /\ retry_pc' = IF IsLastAttempt(attempt, max_retries) THEN "raised" ELSE "sleep"
          /\ UNCHANGED retry_result
    /\ UNCHANGED <<subVars, videoVars, audioVars, ledgerVars, ideasVars, pipelineVars,
                   retry_fn, client_ready, max_retries, attempt, predict_outcomes, waits>>

\* lines 90-92 and 222-224: time.sleep(wait_time), then the next iteration
Sleep ==
    /\ retry_pc = "sleep"
    /\ waits' = Append(waits, WaitTime(attempt))
    /\ attempt' = attempt + 1
    /\ retry_pc' = "attempt"
    /\ UNCHANGED <<subVars, videoVars, audioVars, ledgerVars, ideasVars, pipelineVars,
                   retry_fn, client_ready, max_retries, predict_outcomes,
                   attempts_made, retry_result>>

\* line 94: the loop ended without a return: _retry_predict raises
\* RuntimeError, generate_audio_kokoro falls off its end and returns None
LoopExhausted ==
    /\ retry_pc = "attempt"
    /\ attempt >= max_retries
    /\ retry_pc' = IF retry_fn = "_retry_predict" THEN "raised" ELSE "returned"
    /\ UNCHANGED <<subVars, videoVars, audioVars, ledgerVars, ideasVars, pipelineVars,
                   retry_fn, client_ready, max_retries, attempt, predict_outcomes,
                   attempts_made, waits, retry_result>>

NextRetry ==
    \/ EnterLoop
    \/ Attempt
    \/ Sleep
    \/ LoopExhausted

SpecRetry == InitRetry /\ [][NextRetry]_vars

\* a predict call returns or raises, and a sleep ends: the loop keeps going
SpecRetryFair == SpecRetry /\ WF_vars(NextRetry)

----------------------------------------------------------------------------
(* Specification SpecPipeline: one call of run_pipeline *)

\* ideas with the first k ideas in ascending order of id, equal ids in file order
RECURSIVE InsertById(_, _)
InsertById(sorted, idea) ==
    IF sorted = <<>> THEN <<idea>>
    ELSE IF idea.id < sorted[Len(sorted)].id
         THEN Append(InsertById(SubSeq(sorted, 1, Len(sorted) - 1), idea),
                     sorted[Len(sorted)])
         ELSE Append(sorted, idea)

\* ideas.sort(key=lambda x: x['id'])
RECURSIVE SortById(_)
SortById(ideas) ==
    IF ideas = <<>> THEN <<>>
    ELSE InsertById(SortById(SubSeq(ideas, 1, Len(ideas) - 1)), ideas[Len(ideas)])

\* the position of the first idea of the list whose status is 'pending' (0: none)
FirstPendingIn(ideas) ==
    IF \E k \in 1..Len(ideas) : ideas[k].publishing_status = "pending"
    THEN CHOOSE k \in 1..Len(ideas) :
            /\ ideas[k].publishing_status = "pending"
            /\ \A j \in 1..(k - 1) : ideas[j].publishing_status # "pending"
    ELSE 0

\* variant of Sorted: the ideas are taken in file order
Unsorted(ideas) == ideas

\* the list process_first_pending_idea and get_current_idea_id loop over
Sorted(ideas) == SortById(ideas)

\* get_current_idea_id: None (0) when the file cannot be read or has no pending idea
get_current_idea_id(file) ==
    IF file.kind # "array" \/ FirstPendingIn(SortById(file.ideas)) = 0 THEN 0
    ELSE SortById(file.ideas)[FirstPendingIn(SortById(file.ideas))].id

\* update_idea_status: the first idea with the id gets the status, and the
\* final_output and error_log that are not empty; the file is written back
update_idea_status(file, id, status, final_output, error_log) ==
    IF \E k \in 1..Len(file.ideas) : file.ideas[k].id = id
    THEN LET k == CHOOSE k \in 1..Len(file.ideas) :
                     /\ file.ideas[k].id = id
                     /\ \A j \in 1..(k - 1) : file.ideas[j].id # id
             idea == file.ideas[k]
         IN  [file EXCEPT !.ideas[k] =
                 [idea EXCEPT !.publishing_status = status,
                              !.final_output = IF final_output # "" THEN final_output
                                               ELSE idea.final_output,
                              !.error_log = IF error_log # "" THEN error_log
                                            ELSE idea.error_log]]
    ELSE file

\* process_first_pending_idea: the position, in the sorted list, of the idea it takes
TakenPosition(file) == FirstPendingIn(Sorted(file.ideas))

\* lines 223-227 of story.py: the storyboard is saved and the ledger written
StoryboardSaved(file) ==
    LET k == TakenPosition(file)
    IN  [file EXCEPT !.ideas =
            [Sorted(file.ideas) EXCEPT ![k] =
                [@ EXCEPT !.final_output = "story_board",
                          !.publishing_status = "storyboard_generated",
                          !.error_log = ""]]]

\* lines 236-239 of story.py: the error is logged and the ledger written
StoryboardFailed(file) ==
    LET k == TakenPosition(file)
    IN  [file EXCEPT !.ideas =
            [Sorted(file.ideas) EXCEPT ![k] = [@ EXCEPT !.error_log = "storyboard error"]]]

\* generate_new_ideas when it succeeds with the batch
WithNewIdeas(file, batch) ==
    save_ideas_to_file(load_existing_ideas(file).ideas,
                       renumber_and_append_ids(batch, load_existing_ideas(file).max_id + 1))

\* the orders of 1..n
Orders(n) == {f \in [1..n -> 1..n] : \A i, j \in 1..n : i # j => f[i] # f[j]}

\* the ledgers run_pipeline starts from: no file, or ideas with the ids 1..n
\* in any order and any status
Ledgers ==
    {NoFile} \cup
    UNION {{[kind |-> "array",
             ideas |-> [k \in 1..n |-> Idea(ids[k], <<"stored", ids[k]>>, st[k])]] :
               ids \in Orders(n),
               st \in [1..n -> {"pending", "completed", "error"}]} : n \in 0..MaxIdeas}

\* the statuses the generated ideas come with
GeneratedStatuses == {"pending", "draft"}

\* the statements of the try block
InTry == {"storyboard", "find_storyboard", "voice", "audio_status", "video",
          "completed_status", "summary", "fail_return"}

InitPipeline ==
    /\ SubIdle
    /\ VideoIdle
    /\ AudioIdle
    /\ IdeasIdle
    /\ RetryIdle
    /\ ideas_json \in Ledgers
    /\ run_pc = "check_files"
    /\ ideas_selected = NoFile
    /\ idea_id = 0
    /\ processed_id = 0
    /\ lines_total = 0
    /\ voice_returned = FALSE
    /\ run_manifest = <<>>
    /\ video_calls = <<>>
    /\ video_exists = FALSE
    /\ status_writes = <<>>
    /\ interrupted = FALSE
    /\ run_result = "none"

\* what the call leaves alone besides the ledger and its own variables
OutsidePipeline == <<subVars, videoVars, audioVars, ideasVars, retryVars>>

\* a status write: who wrote which status for which idea
StatusWrite(id, status, error_log) == [id |-> id, status |-> status, error_log |-> error_log]

\* lines 269-286: required files are checked; without ideas.json new ideas
\* are generated
CheckFiles ==
    /\ run_pc = "check_files"
    /\ \/ /\ run_pc' = "returned"
          /\ run_result' = "false"
          /\ UNCHANGED ideas_json
       \/ /\ ideas_json.kind # "missing"
          /\ run_pc' = "select"
          /\ UNCHANGED <<ideas_json, run_result>>
       \/ /\ ideas_json.kind = "missing"
          /\ \/ /\ run_pc' = "returned"
                /\ run_result' = "false"
                /\ UNCHANGED ideas_json
             \/ /\ \E batch \in IdeaBatches, st \in GeneratedStatuses :
                      ideas_json' = WithNewIdeas(ideas_json,
                          [k \in 1..Len(batch) |->
                              [batch[k] EXCEPT !.publishing_status = st]])
                /\ run_pc' = "select"
                /\ UNCHANGED run_result
    /\ UNCHANGED <<OutsidePipeline, ideas_selected, idea_id, processed_id,
                   lines_total, voice_returned, run_manifest, video_calls,
                   video_exists, status_writes, interrupted>>

\* lines 288-311: the pending idea with the smallest id is selected; when there
\* is none, new ideas are generated and the selection is made again
SelectIdea ==
    /\ run_pc = "select"
    /\ \/ /\ get_current_idea_id(ideas_json) # 0
          /\ idea_id' = get_current_idea_id(ideas_json)
          /\ ideas_selected' = ideas_json
          /\ run_pc' = "storyboard"
          /\ UNCHANGED <<ideas_json, run_result>>
       \/ /\ get_current_idea_id(ideas_json) = 0
          /\ run_pc' = "returned"
          /\ run_result' = "false"
          /\ UNCHANGED <<ideas_json, idea_id, ideas_selected>>
       \/ /\ get_current_idea_id(ideas_json) = 0
          /\ \E batch \in IdeaBatches, st \in GeneratedStatuses :
                LET file == WithNewIdeas(ideas_json,
                                [k \in 1..Len(batch) |->
                                    [batch[k] EXCEPT !.publishing_status = st]])
                IN  /\ ideas_json' = file
                    /\ idea_id' = get_current_idea_id(file)
                    /\ ideas_selected' = IF get_current_idea_id(file) # 0
                                         THEN file ELSE ideas_selected
                    /\ run_pc' = IF get_current_idea_id(file) # 0
                                 THEN "storyboard" ELSE "returned"
                    /\ run_result' = IF get_current_idea_id(file) # 0
                                     THEN run_result ELSE "false"
    /\ UNCHANGED <<OutsidePipeline, processed_id, lines_total, voice_returned,
                   run_manifest, video_calls, video_exists, status_writes,
                   interrupted>>

\* lines 317-326: process_first_pending_idea saves a storyboard and the status,
\* or logs its error and returns False, after which 'error' is written; or it raises
StoryboardStage ==
    /\ run_pc = "storyboard"
    /\ \/ /\ ideas_json' = StoryboardSaved(ideas_json)
          /\ processed_id' = Sorted(ideas_json.ideas)[TakenPosition(ideas_json)].id
          /\ status_writes' = Append(status_writes,
                 StatusWrite(Sorted(ideas_json.ideas)[TakenPosition(ideas_json)].id,
                             "storyboard_generated", ""))
          /\ run_pc' = "find_storyboard"
       \/ /\ ideas_json' = update_idea_status(StoryboardFailed(ideas_json), idea_id,
                                              "error", "", "Storyboard generation failed")
          /\ processed_id' = Sorted(ideas_json.ideas)[TakenPosition(ideas_json)].id
          /\ status_writes' = Append(status_writes,
                 StatusWrite(idea_id, "error", "Storyboard generation failed"))
          /\ run_pc' = "fail_return"
       \/ /\ run_pc' = "except"
          /\ UNCHANGED <<ideas_json, processed_id, status_writes>>
    /\ UNCHANGED <<OutsidePipeline, ideas_selected, idea_id, lines_total,
                   voice_returned, run_manifest, video_calls, video_exists,
                   interrupted, run_result>>

\* lines 328-336: the storyboard file is found, or 'error' is written
FindStoryboard ==
    /\ run_pc = "find_storyboard"
    /\ \/ /\ run_pc' = "voice"
          /\ UNCHANGED <<ideas_json, status_writes>>
       \/ /\ ideas_json' = update_idea_status(ideas_json, idea_id, "error", "",
                                              "Storyboard file not found")
          /\ status_writes' = Append(status_writes,
                 StatusWrite(idea_id, "error", "Storyboard file not found"))
          /\ run_pc' = "fail_return"
    /\ UNCHANGED <<OutsidePipeline, ideas_selected, idea_id, processed_id,
                   lines_total, voice_returned, run_manifest, video_calls,
                   video_exists, interrupted, run_result>>

\* variant of VoiceFailed: an empty manifest passes
VoiceNeverFailed(manifest) == FALSE

\* if not audio_folder or not audio_metadata
VoiceFailed(manifest) == manifest = <<>>

\* variant of HandlerLog: the handlers write no error_log
HandlerLogEmpty == ""

\* lines 341-352: process_storyboard_audio returns the manifest of the lines
\* it stored; an empty manifest is a failure; or it raises
VoiceStage ==
    /\ run_pc = "voice"
    /\ \/ \E total \in 0..MaxLines, stored \in 0..MaxLines :
             /\ stored <= total
             /\ lines_total' = total
             /\ voice_returned' = TRUE
             /\ run_manifest' = [k \in 1..stored |-> k]
             /\ IF VoiceFailed([k \in 1..stored |-> k])
                THEN /\ ideas_json' = update_idea_status(ideas_json, idea_id, "error", "",
                                                         "Voice-over generation failed")
                     /\ status_writes' = Append(status_writes,
                            StatusWrite(idea_id, "error", "Voice-over generation failed"))
                     /\ run_pc' = "fail_return"
                ELSE /\ run_pc' = "audio_status"
                     /\ UNCHANGED <<ideas_json, status_writes>>
       \/ /\ run_pc' = "except"
          /\ UNCHANGED <<ideas_json, status_writes, lines_total, voice_returned,
                         run_manifest>>
    /\ UNCHANGED <<OutsidePipeline, ideas_selected, idea_id, processed_id,
                   video_calls, video_exists, interrupted, run_result>>

\* line 355
AudioStatus ==
    /\ run_pc = "audio_status"
    /\ ideas_json' = update_idea_status(ideas_json, idea_id, "audio_generated", "", "")
    /\ status_writes' = Append(status_writes, StatusWrite(idea_id, "audio_generated", ""))
    /\ run_pc' = "video"
    /\ UNCHANGED <<OutsidePipeline, ideas_selected, idea_id, processed_id,
                   lines_total, voice_returned, run_manifest, video_calls,
                   video_exists, interrupted, run_result>>

\* lines 360-370: create_video_with_audio returns the path of the video, or a
\* path at which there is no file, after which 'error' is written; or it raises
VideoStage ==
    /\ run_pc = "video"
    /\ video_calls' = Append(video_calls, run_manifest)
    /\ \/ /\ video_exists' = TRUE
          /\ run_pc' = "completed_status"
          /\ UNCHANGED <<ideas_json, status_writes>>
       \/ /\ video_exists' = FALSE
          /\ ideas_json' = update_idea_status(ideas_json, idea_id, "error", "",
                                              "Video creation failed")
          /\ status_writes' = Append(status_writes,
                 StatusWrite(idea_id, "error", "Video creation failed"))
          /\ run_pc' = "fail_return"
       \/ /\ run_pc' = "except"
          /\ UNCHANGED <<ideas_json, status_writes, video_exists>>
    /\ UNCHANGED <<OutsidePipeline, ideas_selected, idea_id, processed_id,
                   lines_total, voice_returned, run_manifest, interrupted,
                   run_result>>

\* line 373
CompletedStatus ==
    /\ run_pc = "completed_status"
    /\ ideas_json' = update_idea_status(ideas_json, idea_id, "completed", "final_videos", "")
    /\ status_writes' = Append(status_writes, StatusWrite(idea_id, "completed", ""))
    /\ run_pc' = "summary"
    /\ UNCHANGED <<OutsidePipeline, ideas_selected, idea_id, processed_id,
                   lines_total, voice_returned, run_manifest, video_calls,
                   video_exists, interrupted, run_result>>

\* lines 375-387: the summary is printed and True returned
Summary ==
    /\ run_pc = "summary"
    /\ run_pc' = "returned"
    /\ run_result' = "true"
    /\ UNCHANGED <<OutsidePipeline, ledgerVars, ideas_selected, idea_id, processed_id,
                   lines_total, voice_returned, run_manifest, video_calls,
                   video_exists, status_writes, interrupted>>

\* lines 324, 334, 348, 367: return False after 'error' was written
FailReturn ==
    /\ run_pc = "fail_return"
    /\ run_pc' = "returned"
    /\ run_result' = "false"
    /\ UNCHANGED <<OutsidePipeline, ledgerVars, ideas_selected, idea_id, processed_id,
                   lines_total, voice_returned, run_manifest, video_calls,
                   video_exists, status_writes, interrupted>>

\* a KeyboardInterrupt reaches the process while it is in the try block
Interrupt ==
    /\ run_pc \in InTry
    /\ interrupted' = TRUE
    /\ run_pc' = "except"
    /\ UNCHANGED <<OutsidePipeline, ledgerVars, ideas_selected, idea_id, processed_id,
                   lines_total, voice_returned, run_manifest, video_calls,
                   video_exists, status_writes, run_result>>

\* the error_log the handlers write
HandlerLog == IF interrupted THEN "Pipeline interrupted by user" ELSE "Pipeline error"

\* lines 389-399: the handlers write 'error' and return False
Handler ==
    /\ run_pc = "except"
    /\ ideas_json' = update_idea_status(ideas_json, idea_id, "error", "", HandlerLog)
    /\ status_writes' = Append(status_writes, StatusWrite(idea_id, "error", HandlerLog))
    /\ run_pc' = "returned"
    /\ run_result' = "false"
    /\ UNCHANGED <<OutsidePipeline, ideas_selected, idea_id, processed_id,
                   lines_total, voice_returned, run_manifest, video_calls,
                   video_exists, interrupted>>

NextPipeline ==
    \/ CheckFiles
    \/ SelectIdea
    \/ StoryboardStage
    \/ FindStoryboard
    \/ VoiceStage
    \/ AudioStatus
    \/ VideoStage
    \/ CompletedStatus
    \/ Summary
    \/ FailReturn
    \/ Interrupt
    \/ Handler

SpecPipeline == InitPipeline /\ [][NextPipeline]_vars

----------------------------------------------------------------------------
(* Properties of create_animated_subtitle_clips (SpecSubtitles) *)

CeilDiv(a, b) == (a + b - 1) \div b

\* the number of words of a text: the positions where a word starts
WordCount(text) ==
    Cardinality({i \in 1..Len(text) :
        /\ text[i] \notin Whitespace
        /\ (i = 1 \/ text[i - 1] \in Whitespace)})

RECURSIVE FSum(_)
\* sum(xs) in float arithmetic, left to right from 0
FSum(xs) == IF Len(xs) = 0 THEN 0 ELSE FAdd(FSum(SubSeq(xs, 1, Len(xs) - 1)), xs[Len(xs)])

RECURSIVE Concat(_)
Concat(seqs) == IF Len(seqs) = 0 THEN <<>> ELSE Head(seqs) \o Concat(Tail(seqs))

CallDurationsOf == [k \in 1..Len(call_clips) |-> call_clips[k].duration]

CallChunkCount == CeilDiv(WordCount(call_text), WORDS_PER_LINE)

\* C6 (as stated): a line of W >= 1 words and duration D yields exactly
\* ceil(W/K) caption clips whose display durations sum to exactly D.
C6_SumExactlyD ==
    (call_pc = "returned" /\ WordCount(call_text) >= 1) =>
        /\ Len(call_clips) = CallChunkCount
        /\ FSum(CallDurationsOf) = call_duration

\* C6 (amended): a line of W >= 1 words and duration D yields exactly
\* ceil(W/K) caption clips; their display durations sum to D up to float
\* rounding (relative error at most chunk_count * 2^-(Precision-1)), and to
\* exactly D when there is a single chunk.
C6_SumWithinRounding ==
    (call_pc = "returned" /\ WordCount(call_text) >= 1) =>
        /\ Len(call_clips) = CallChunkCount
        /\ Abs(FSum(CallDurationsOf) - call_duration) * Pow2(Precision - 1)
               <= Len(call_clips) * call_duration
        /\ (Len(call_clips) = 1 => FSum(CallDurationsOf) = call_duration)

\* a three-chunk line whose chunk durations do not add up to D
C6_Witness ==
    /\ call_pc = "returned"
    /\ WordCount(call_text) = 9
    /\ Len(call_clips) = 3
    /\ FSum(CallDurationsOf) # call_duration

\* C7: the chunks of a line partition its whitespace-split word sequence in
\* order: concatenated they give the word sequence back, every chunk has at
\* most K words and only the last may have fewer than K.
C7_ChunksPartitionWords ==
    call_pc = "returned" =>
        LET chunkWords == [k \in 1..Len(call_clips) |-> Split(call_clips[k].text)]
        IN  /\ Concat(chunkWords) = Split(call_text)
            /\ \A k \in 1..Len(call_clips) :
                  /\ Len(chunkWords[k]) >= 1
                  /\ Len(chunkWords[k]) <= WORDS_PER_LINE
                  /\ (k < Len(call_clips) => Len(chunkWords[k]) = WORDS_PER_LINE)

\* the nine-word text with irregular blanks came back as chunks of 4, 4 and 1
C7_Witness ==
    /\ call_pc = "returned"
    /\ call_text = NineWords
    /\ Len(call_clips) = 3
    /\ call_clips[1].text = <<"a"," ","b"," ","c"," ","d">>
    /\ call_clips[3].text = <<"i">>

\* C8: every chunk of a line gets the same display duration,
\* duration / chunk_count, whatever its word count; the 7-word line of 3.5 s
\* gives two chunks of 1.75 s each.
C8_EqualChunkDurations ==
    call_pc = "returned" =>
        /\ \A k \in 1..Len(call_clips) :
              call_clips[k].duration = FDiv(call_duration, ToFloat(CallChunkCount))
        /\ (call_text = SevenWords /\ call_duration = Sec(7, 2)) =>
              /\ Len(call_clips) = 2
              /\ call_clips[1].duration = Sec(7, 4)
              /\ call_clips[2].duration = Sec(7, 4)

\* Scenario B: "one two three four" and "five six seven", 1.75 s each
C8_Witness ==
    /\ call_pc = "returned"
    /\ call_text = SevenWords
    /\ call_duration = Sec(7, 2)
    /\ Len(call_clips) = 2
    /\ Split(call_clips[1].text) = SubSeq(Split(SevenWords), 1, 4)
    /\ Split(call_clips[2].text) = SubSeq(Split(SevenWords), 5, 7)
    /\ call_clips[2].duration = Sec(7, 4)
    /\ Sec(7, 4) * 4 = 7 * Unit

----------------------------------------------------------------------------
(* Properties of create_video_with_audio (Spec) *)

\* the audio durations of the manifest entries, in manifest order
ManifestDurations == [i \in 1..Len(metadata) |-> metadata[i].audio_duration]

\* the sum of the audio durations of the first n entries
CursorAfter(n) == FSum(SubSeq(ManifestDurations, 1, n))

\* line 214 has run: the segment is cut
SegmentChosen == video_size.width > 0

\* line 294 has run: the dialogue clips are concatenated
AudioConcatenated == final_video.made

DialogueLayers == concatenated_audio.clips

ScenarioA == <<Sec(2, 1), Sec(3, 1), Sec(3, 2)>>

\* C1: for every non-empty manifest the dialogue audio layers are laid out in
\* manifest order with no gaps or overlaps: the layer of entry i starts at
\* the sum of the audio durations of the entries before it, the first at 0;
\* durations [2.0, 3.0, 1.5] give starts [0.0, 2.0, 5.0].
C1_DialogueLayersSequential ==
    (AudioConcatenated /\ Len(metadata) >= 1) =>
        /\ ~concatenated_audio.is_none
        /\ Len(DialogueLayers) = Len(metadata)
        /\ \A i \in 1..Len(metadata) :
              /\ DialogueLayers[i].duration = metadata[i].audio_duration
              /\ DialogueLayers[i].start = CursorAfter(i - 1)
              /\ (i < Len(metadata) => End(DialogueLayers[i]) = DialogueLayers[i + 1].start)
        /\ DialogueLayers[1].start = 0
        /\ (ManifestDurations = ScenarioA =>
               [i \in 1..3 |-> DialogueLayers[i].start] = <<0, Sec(2, 1), Sec(5, 1)>>)

\* Scenario A composed: starts 0.0, 2.0 and 5.0 s
C1_Witness ==
    /\ pc = "write"
    /\ ManifestDurations = ScenarioA
    /\ DialogueLayers[2].start = 2 * Unit
    /\ DialogueLayers[3].start = 5 * Unit

\* C2: for every manifest the sum of the dialogue layer durations equals
\* total_audio_duration, which equals the timeline cursor after the last
\* entry and the duration forced on the final composited output.
C2_DurationsAgree ==
    /\ AudioConcatenated =>
          /\ FSum([i \in 1..Len(DialogueLayers) |-> DialogueLayers[i].duration])
                 = total_audio_duration
          /\ current_time = total_audio_duration
    /\ pc = "write" =>
          /\ final_video.has_audio
          /\ final_video.duration = total_audio_duration

\* Scenario A composed: total and output duration 6.5 s
C2_Witness ==
    /\ pc = "write"
    /\ ManifestDurations = ScenarioA
    /\ total_audio_duration = Sec(13, 2)
    /\ final_video.duration = Sec(13, 2)
    /\ current_time = Sec(13, 2)

\* the length of the slice cut from the background source
SliceLength == FSub(background_video.t_end, background_video.t_start)

\* C3: the slice cut from the background source before the speed transform
\* has length total_dialogue_duration * playback_speed, so that compressed by
\* the speed factor it covers the whole total_dialogue_duration.
C3_SliceIsTotalTimesSpeed ==
    SegmentChosen =>
        /\ SliceLength = FMul(total_audio_duration, ToFloat(VIDEO_SPEED))
        /\ FDiv(SliceLength, ToFloat(VIDEO_SPEED)) >= total_audio_duration

\* C4: whenever target_playback_duration * speed exceeds the background
\* source duration, segment selection sets start_offset to 0 and emits the
\* insufficient-source warning, and the render goes on.
C4_InsufficientSourceStartsAtZero ==
    (SegmentChosen
        /\ FMul(total_audio_duration, ToFloat(VIDEO_SPEED)) > background_duration) =>
        /\ random_start_time = 0
        /\ warned
        /\ pc # "raised"

\* C5: for every background source and manifest the chosen start_offset is
\* >= 0 and start_offset + raw_length <= source_duration, raw_length being
\* the length of the slice requested from the source.
C5_SliceWithinSource ==
    SegmentChosen =>
        /\ random_start_time >= 0
        /\ background_video.t_start = ToFloat(random_start_time)
        /\ background_video.t_end <= background_duration

\* the caption layers of manifest entry i (counted from 0), in timeline order
CaptionsOf(i) ==
    SelectSeq(all_clips, LAMBDA c : c.kind = "caption" /\ c.entry = i)

\* x + d + ... + d, with d added n times
RECURSIVE AddTimes(_, _, _)
AddTimes(x, d, n) == IF n = 0 THEN x ELSE FAdd(AddTimes(x, d, n - 1), d)

EntryChunkCount(i) == CeilDiv(WordCount(metadata[i + 1].text), WORDS_PER_LINE)

EntryChunkDuration(i) ==
    FDiv(metadata[i + 1].audio_duration, ToFloat(EntryChunkCount(i)))

\* C9: the caption layer of the j-th chunk of manifest entry i starts at
\* cursor_i plus the display durations of chunks 0..j-1 of that entry (added
\* in order), cursor_i being the sum of the audio durations of the entries
\* before i; its duration is the chunk's display duration.
C9_CaptionStarts ==
    \A i \in 0..(idx - 1) :
        /\ Len(CaptionsOf(i)) = EntryChunkCount(i)
        /\ \A j \in 0..(Len(CaptionsOf(i)) - 1) :
              LET c == CaptionsOf(i)[j + 1]
              IN  /\ c.chunk = j
                  /\ c.start = AddTimes(CursorAfter(i), EntryChunkDuration(i), j)
                  /\ c.duration = EntryChunkDuration(i)

\* the third chunk of the second entry starts two chunk durations after the
\* end of the first entry's audio
C9_Witness ==
    /\ pc = "write"
    /\ Len(metadata) >= 2
    /\ Len(CaptionsOf(1)) = 3
    /\ CaptionsOf(1)[3].start > FAdd(metadata[1].audio_duration, CaptionsOf(1)[1].duration)
    /\ CaptionsOf(1)[1].start = metadata[1].audio_duration

\* C10: a manifest entry whose text has no words yields no caption layer, and
\* the compositor goes on: the entry's dialogue audio layer is still placed,
\* the cursor still advances by its audio duration, and the layers of later
\* entries start where they would.
C10_EmptyTextTolerated ==
    \A i \in 0..(idx - 1) :
        WordCount(metadata[i + 1].text) = 0 =>
            /\ create_animated_subtitle_clips(metadata[i + 1].text,
                                              metadata[i + 1].audio_duration) = <<>>
            /\ CaptionsOf(i) = <<>>
            /\ (pc = "raised" => (failed_open # 0 \/ write_failed))
            /\ current_time = CursorAfter(idx)
            /\ AudioConcatenated =>
                  /\ DialogueLayers[i + 1].start = CursorAfter(i)
                  /\ DialogueLayers[i + 1].duration = metadata[i + 1].audio_duration
            /\ \A k \in 1..Len(all_clips) :
                  (all_clips[k].kind # "background" /\ all_clips[k].entry > i) =>
                      all_clips[k].start >= CursorAfter(all_clips[k].entry)
            /\ \A n \in (i + 1)..(idx - 1) :
                  CaptionsOf(n) # <<>> => CaptionsOf(n)[1].start = CursorAfter(n)

\* an entry without words was followed by a captioned entry, which starts
\* after the wordless entry's audio
C10_Witness ==
    /\ pc = "write"
    /\ Len(metadata) = 2
    /\ WordCount(metadata[1].text) = 0
    /\ Len(metadata[1].text) > 0
    /\ CaptionsOf(0) = <<>>
    /\ CaptionsOf(1) # <<>>
    /\ CaptionsOf(1)[1].start = metadata[1].audio_duration
    /\ DialogueLayers[1].duration = metadata[1].audio_duration
    /\ DialogueLayers[2].start = metadata[1].audio_duration

\* the character layers of entry i (numbered from 0), in the order they were added
CharactersOf(i) ==
    SelectSeq(all_clips, LAMBDA c : c.kind = "character" /\ c.entry = i)

\* C11: a character layer starts at the time at which the dialogue audio layer of
\* the same manifest entry starts, and has the same duration, although the two
\* are laid out by separate loops.
C11_CharacterAlignedWithDialogue ==
    AudioConcatenated =>
        \A k \in 1..Len(all_clips) :
            all_clips[k].kind = "character" =>
                LET c == all_clips[k]
                    d == DialogueLayers[c.entry + 1]
                IN  /\ c.start = d.start
                    /\ c.duration = d.duration
                    /\ End(c) = End(d)

\* a character layer of a later entry starts with that entry's audio, after 0
C11_Witness ==
    /\ AudioConcatenated
    /\ \E k \in 1..Len(all_clips) :
          /\ all_clips[k].kind = "character"
          /\ all_clips[k].entry >= 1
          /\ all_clips[k].start > 0
          /\ all_clips[k].start = DialogueLayers[all_clips[k].entry + 1].start
          /\ all_clips[k].duration = metadata[all_clips[k].entry + 1].audio_duration

\* the entry numbered i gets a character layer
CharacterExpected(i) ==
    /\ USE_CHARACTER_IMAGES
    /\ metadata[i + 1].speaker \in {PERSON_1, PERSON_2}
    /\ metadata[i + 1].speaker \in image_files

\* C12: an entry gets exactly one character layer when overlays are enabled, its
\* speaker is Person 1 or Person 2 and that speaker's image file exists, and
\* none otherwise; a missing layer does not make the call fail, and the finished
\* call has every dialogue layer and every caption layer.
C12_CharacterLayerWhenImageAvailable ==
    /\ \A i \in 0..(idx - 1) :
          Len(CharactersOf(i)) = IF CharacterExpected(i) THEN 1 ELSE 0
    /\ (pc = "raised" => (Len(metadata) = 0 \/ failed_open # 0 \/ write_failed))
    /\ pc = "done" =>
          /\ idx = Len(metadata)
          /\ Len(DialogueLayers) = Len(metadata)
          /\ \A i \in 0..(Len(metadata) - 1) :
                Len(CaptionsOf(i)) = CeilDiv(WordCount(metadata[i + 1].text),
                                             WORDS_PER_LINE)

\* a finished call with overlays enabled and only Person 1's image on disk: the
\* entry of Person 1 has a character layer, those of Person 2 and of an unknown
\* speaker have none
C12_Witness ==
    /\ pc = "done"
    /\ USE_CHARACTER_IMAGES
    /\ image_files = {PERSON_1}
    /\ Len(metadata) = 3
    /\ metadata[1].speaker = PERSON_1
    /\ metadata[2].speaker = PERSON_2
    /\ metadata[3].speaker \notin {PERSON_1, PERSON_2}
    /\ Len(CharactersOf(0)) = 1
    /\ CharactersOf(1) = <<>>
    /\ CharactersOf(2) = <<>>
    /\ Len(CaptionsOf(2)) = 3
    /\ Len(DialogueLayers) = 3

\* C13: the image of Person 1 is placed with its top-left corner at
\* (50, canvas height - image height - 50), that of Person 2 at
\* (canvas width - image width - 50, canvas height - image height - 50).
C13_CharacterCorners ==
    \A k \in 1..Len(all_clips) :
        all_clips[k].kind = "character" =>
            LET c == all_clips[k]
                speaker == c.content[1]
                shape == character_images[speaker]
            IN  /\ c.position.anchor = "xy"
                /\ c.position.y = video_size.height - shape.height - 50
                /\ (speaker = PERSON_1 => c.position.x = 50)
                /\ (speaker = PERSON_2 =>
                       c.position.x = video_size.width - shape.width - 50)

\* on the 1280 x 1024 canvas the 512 x 512 image of Person 2 is resized to
\* 256 x 256 and placed at (974, 718), and the image of Person 1 at x = 50
C13_Witness ==
    /\ video_size = [width |-> 1280, height |-> 1024]
    /\ \E k \in 1..Len(all_clips) :
          /\ all_clips[k].kind = "character"
          /\ all_clips[k].content = <<PERSON_2>>
          /\ character_images[PERSON_2].width = 256
          /\ all_clips[k].position = [anchor |-> "xy", x |-> 974, y |-> 718]
    /\ \E k \in 1..Len(all_clips) :
          /\ all_clips[k].kind = "character"
          /\ all_clips[k].content = <<PERSON_1>>
          /\ all_clips[k].position.x = 50
          /\ all_clips[k].position.y = 1024 - character_images[PERSON_1].height - 50

\* lines 296-306 have run: the music layer exists
MusicAdded == music_duration > 0

\* the length of the music after looping and before it is cut
LoopedLength ==
    MaxEnd(concatenate_audioclips(Repeat(FileClip(music_duration), loops_needed)).clips)

\* C14: the music layer starts at 0 and lasts exactly the total dialogue
\* duration; a track shorter than the dialogue is repeated in whole copies that
\* together cover the total, then cut (a track of 2 s under 5 s of dialogue: 3
\* copies, 6 s, cut to 5 s); a track that is long enough is only cut.
C14_MusicCoversDialogue ==
    MusicAdded =>
        /\ background_music.start = 0
        /\ background_music.t_start = 0
        /\ background_music.duration = total_audio_duration
        /\ (music_duration < total_audio_duration =>
               /\ loops_needed >= 2
               /\ LoopedLength = loops_needed * music_duration
               /\ LoopedLength >= total_audio_duration)
        /\ (~(music_duration < total_audio_duration) => loops_needed = 0)
        /\ ((music_duration = Sec(2, 1) /\ total_audio_duration = Sec(5, 1)) =>
               (loops_needed = 3 /\ LoopedLength = Sec(6, 1)))

\* a track of 2 s under 5 s of dialogue was repeated 3 times and cut to 5 s
C14_Witness ==
    /\ MusicAdded
    /\ music_duration = Sec(2, 1)
    /\ total_audio_duration = Sec(5, 1)
    /\ loops_needed = 3
    /\ LoopedLength = Sec(6, 1)
    /\ background_music.start = 0
    /\ background_music.duration = Sec(5, 1)

\* C15: a call with an empty manifest fails before any work is done: no
\* background segment is chosen, no layer is built, no output folder or file
\* is written.
C15_EmptyManifestFailsBeforeWork ==
    Len(metadata) = 0 =>
        /\ ~SegmentChosen
        /\ all_clips = <<>>
        /\ ~final_video.made
        /\ ~MusicAdded
        /\ ~output_folder
        /\ output_file = "none"

\* C16: when the audio file of an entry cannot be opened the call ends with the
\* exception: the entry is not skipped (nothing of it or of a later entry is
\* added, the composite is not made) and no output video is written, not even
\* a part of one.
C16_FailedOpenEndsTheCall ==
    failed_open # 0 =>
        /\ pc = "raised"
        /\ failed_open \in 1..Len(metadata)
        /\ (Len(audio_clips) < Len(metadata) => Len(audio_clips) = failed_open - 1)
        /\ idx < failed_open
        /\ \A k \in 1..Len(all_clips) :
              all_clips[k].kind # "background" => all_clips[k].entry < failed_open - 1
        /\ ~final_video.made
        /\ ~write_failed
        /\ ~output_folder
        /\ output_file = "none"

\* the audio file of the second of three entries did not open in the first loop
C16_Witness ==
    /\ failed_open = 2
    /\ Len(metadata) = 3
    /\ pc = "raised"
    /\ Len(audio_clips) = 1
    /\ total_audio_duration = metadata[1].audio_duration
    /\ all_clips = <<>>
    /\ output_file = "none"

\* C17: when write_videofile raises, every media handle opened so far is
\* released before the exception leaves the function.
C17_HandlesReleasedOnWriteFailure ==
    (write_failed /\ pc = "raised") => open_handles = {}

\* C18: when the function has returned or raised, every handle it opened is
\* closed: the background video, each dialogue AudioFileClip of both loops,
\* and the music clip.
C18_NoHandleLeftOpen ==
    pc \in {"done", "raised"} => open_handles = {}

\* C19: the start and the duration of every layer are fixed by the manifest
\* alone, whatever random start was drawn: captions, character layers,
\* dialogue layers, music and the background layer; the draw fixes only the
\* offset of the background slice in its source, and lies between 0 and the
\* largest start that leaves room for the slice.
C19_TimingsFixedByInputs ==
    /\ \A k \in 1..Len(all_clips) :
          LET c == all_clips[k]
          IN  CASE c.kind = "background" ->
                      /\ c.start = 0
                      /\ c.duration = CursorAfter(Len(metadata))
                [] c.kind = "caption" ->
                      /\ c.start = AddTimes(CursorAfter(c.entry),
                                            EntryChunkDuration(c.entry), c.chunk)
                      /\ c.duration = EntryChunkDuration(c.entry)
                [] c.kind = "character" ->
                      /\ c.start = CursorAfter(c.entry)
                      /\ c.duration = metadata[c.entry + 1].audio_duration
    /\ AudioConcatenated =>
          \A i \in 1..Len(DialogueLayers) :
              /\ DialogueLayers[i].start = CursorAfter(i - 1)
              /\ DialogueLayers[i].duration = metadata[i].audio_duration
    /\ MusicAdded =>
          /\ background_music.start = 0
          /\ background_music.duration = CursorAfter(Len(metadata))
    /\ final_video.has_audio => final_video.duration = CursorAfter(Len(metadata))
    /\ SegmentChosen =>
          LET needed == VideoNeeded(CursorAfter(Len(metadata)))
              max_start_time == FSub(background_duration, needed)
          IN  /\ background_video.t_start = ToFloat(random_start_time)
              /\ background_video.t_end = FAdd(ToFloat(random_start_time), needed)
              /\ random_start_time >= 0
              /\ (max_start_time > 0 => random_start_time <= ToInt(max_start_time))
              /\ (~(max_start_time > 0) => random_start_time = 0)

\* a finished call whose background slice starts 3 s into the source, while
\* its first caption and its first character layer start at 0 and those of
\* its second entry at the end of the first entry's audio
C19_Witness ==
    /\ pc = "done"
    /\ random_start_time = 3
    /\ background_video.t_start = Sec(3, 1)
    /\ Len(metadata) = 2
    /\ CaptionsOf(0) # <<>>
    /\ CaptionsOf(0)[1].start = 0
    /\ CharactersOf(0) # <<>>
    /\ CharactersOf(0)[1].start = 0
    /\ CaptionsOf(1) # <<>>
    /\ CaptionsOf(1)[1].start = metadata[1].audio_duration
    /\ CharactersOf(1) # <<>>
    /\ CharactersOf(1)[1].start = metadata[1].audio_duration
    /\ background_music.start = 0

\* the caption layers, in the order they were added
AllCaptions == SelectSeq(all_clips, LAMBDA c : c.kind = "caption")

\* how far the last caption of entry i (numbered from 0) ends after the start
\* of the next entry's window; negative when it ends before
CaptionSlack(i) == End(CaptionsOf(i)[Len(CaptionsOf(i))]) - CursorAfter(i + 1)

\* the captions of entry i start at its cursor and follow each other with
\* neither gap nor overlap
BackToBack(i) ==
    LET caps == CaptionsOf(i)
    IN  /\ caps # <<>>
        /\ caps[1].start = CursorAfter(i)
        /\ \A j \in 1..(Len(caps) - 1) : End(caps[j]) = caps[j + 1].start

\* C27 as stated: the captions of every entry with a word tile its audio
\* window exactly, the last one ending where the next window begins, and no
\* two caption layers are visible at the same instant.
C27_CaptionsTileExactly ==
    /\ \A i \in 0..(idx - 1) :
          WordCount(metadata[i + 1].text) >= 1 =>
              (BackToBack(i) /\ CaptionSlack(i) = 0)
    /\ \A p, q \in 1..Len(AllCaptions) :
          p < q => End(AllCaptions[p]) <= AllCaptions[q].start

\* C27: the captions of every entry with a word start at the entry's cursor
\* and follow each other back to back; the last one ends at the start of the
\* next window up to float rounding (exactly when the entry has one caption),
\* so two captions of one entry are never visible together and captions of
\* different entries overlap by no more than that rounding error.
C27_CaptionsTileWithinRounding ==
    /\ \A i \in 0..(idx - 1) :
          WordCount(metadata[i + 1].text) >= 1 =>
              /\ BackToBack(i)
              /\ Abs(CaptionSlack(i)) * Pow2(Precision - 1)
                     <= Len(CaptionsOf(i)) * CursorAfter(i + 1)
              /\ (Len(CaptionsOf(i)) = 1 => CaptionSlack(i) = 0)
    /\ \A p, q \in 1..Len(AllCaptions) :
          p < q =>
              LET a == AllCaptions[p]
                  b == AllCaptions[q]
              IN  IF a.entry = b.entry
                  THEN End(a) <= b.start
                  ELSE (End(a) - b.start) * Pow2(Precision - 1)
                           <= Len(CaptionsOf(a.entry)) * CursorAfter(a.entry + 1)

\* the three captions of a nine-word entry follow each other back to back and
\* the third ends after the next entry's window has begun: for that instant
\* it is visible together with the next entry's first caption
C27_Witness ==
    /\ idx = 2
    /\ WordCount(metadata[1].text) = 9
    /\ Len(CaptionsOf(0)) = 3
    /\ BackToBack(0)
    /\ CaptionSlack(0) > 0
    /\ CaptionsOf(1) # <<>>
    /\ CaptionsOf(1)[1].start = CursorAfter(1)
    /\ CaptionsOf(1)[1].start < End(CaptionsOf(0)[3])

----------------------------------------------------------------------------
(* Properties of process_storyboard_audio (SpecAudio) *)

\* the dialogue lines of the scenes from position p on, in storyboard order
RECURSIVE LinesFrom(_)
LinesFrom(p) ==
    IF p > Len(storyboard) THEN <<>>
    ELSE [k \in 1..Len(storyboard[p].dialogue_lines) |->
             [scene_id |-> storyboard[p].scene_id,
              line_number |-> k,
              speaker |-> storyboard[p].dialogue_lines[k].speaker,
              text |-> storyboard[p].dialogue_lines[k].line]] \o LinesFrom(p + 1)

\* the lines processed so far, in storyboard order
ProcessedLines == SubSeq(LinesFrom(1), 1, current_line)

\* the processed lines for which generate_audio returned
SynthesizedLines ==
    SelectSeq(ProcessedLines, LAMBDA l : <<l.scene_id, l.line_number>> \in synthesized)

\* the manifest holds no line twice
EachOnce(manifest) ==
    \A i, j \in 1..Len(manifest) : i # j => manifest[i] # manifest[j]

\* the manifest is the subsequence of lines at strictly increasing positions
RECURSIVE IsSubsequence(_, _)
IsSubsequence(manifest, lines) ==
    IF manifest = <<>> THEN TRUE
    ELSE IF lines = <<>> THEN FALSE
    ELSE IF Head(manifest) = Head(lines)
         THEN IsSubsequence(Tail(manifest), Tail(lines))
         ELSE IsSubsequence(manifest, Tail(lines))

\* C20 as stated: the manifest holds exactly the lines whose synthesis
\* succeeded, each once, in storyboard order, the written file too.
C20_ManifestIsSynthesizedLines ==
    /\ audio_metadata = SynthesizedLines
    /\ (audio_pc = "returned" => saved_metadata = SynthesizedLines)

\* C20: the manifest holds only lines whose synthesis succeeded, each once, in
\* storyboard order, and a line lacks only if its synthesis failed or its
\* audio file could not be named and copied into the output folder; whatever
\* failed, every line of the storyboard is processed and the manifest written.
C20_ManifestListsStoredLines ==
    /\ IsSubsequence(audio_metadata, SynthesizedLines)
    /\ EachOnce(audio_metadata)
    /\ Len(audio_metadata) <= Cardinality(synthesized)
    /\ Cardinality(synthesized) <= current_line
    /\ audio_pc = "returned" =>
          /\ current_line = Len(LinesFrom(1))
          /\ saved_metadata = audio_metadata

\* of two scenes the first line of the first failed in synthesis, its second
\* was synthesized but not stored, the line of the second was stored and is the
\* whole manifest that was written
C20_Witness ==
    /\ audio_pc = "returned"
    /\ Len(storyboard) = 2
    /\ Len(LinesFrom(1)) = 3
    /\ synthesized = {<<1, 2>>, <<2, 1>>}
    /\ Len(saved_metadata) = 1
    /\ saved_metadata[1].scene_id = 2
    /\ saved_metadata[1].line_number = 1

----------------------------------------------------------------------------
(* Properties of generate_new_ideas (SpecIdeas) *)

\* the ids of a list of ideas, in list order
IdsOf(ideas) == [k \in 1..Len(ideas) |-> ideas[k].id]

\* no id occurs twice
DistinctIds(ideas) ==
    \A i, j \in 1..Len(ideas) : i # j => ideas[i].id # ideas[j].id

\* generate_new_ideas has saved
Saved == gen_pc = "returned" /\ gen_result = "true"

\* C25: the renumbered ideas have the ids start_id, start_id + 1, ... in list
\* order, they are otherwise the ranked ideas, and with start_id = highest
\* existing id + 1 the ids of the saved file are distinct when the ids of the
\* file were distinct before.
C25_NewIdsConsecutiveAndDistinct ==
    /\ gen_pc \in {"save", "returned"} /\ new_ideas # <<>> =>
          /\ Len(new_ideas) = Len(ranked_ideas)
          /\ \A k \in 1..Len(new_ideas) :
                /\ new_ideas[k].id = max_existing_id + k
                /\ new_ideas[k].idea = ranked_ideas[k].idea
          /\ \A k \in 1..Len(existing_ideas) : existing_ideas[k].id <= max_existing_id
    /\ (Saved /\ DistinctIds(file_before.ideas)) => DistinctIds(ideas_json.ideas)

\* a file with the ids 3 and 1 got two new ideas, which the model had numbered
\* 1 and 1: they are saved with the ids 4 and 5
C25_Witness ==
    /\ Saved
    /\ file_before.kind = "array"
    /\ IdsOf(file_before.ideas) = <<3, 1>>
    /\ IdsOf(ranked_ideas) = <<1, 1>>
    /\ IdsOf(new_ideas) = <<4, 5>>
    /\ IdsOf(ideas_json.ideas) = <<3, 1, 4, 5>>

\* C26: after generate_new_ideas has saved, the ideas the file held before the
\* call are a prefix of the file, unchanged and in the same order, whatever
\* the file held.
C26_OnlyAppends ==
    Saved =>
        /\ Len(ideas_json.ideas) >= Len(file_before.ideas)
        /\ SubSeq(ideas_json.ideas, 1, Len(file_before.ideas)) = file_before.ideas

----------------------------------------------------------------------------
(* Properties of the retry loops (SpecRetry, SpecRetryFair) *)

\* the call has returned or raised
RetryOver == retry_pc \in {"returned", "raised"}

\* the delays after the first n failures that are followed by another attempt
Backoff(n) == [k \in 1..n |-> Pow2(k - 1)]

\* at most max_retries predict calls are made, every call before the current
\* one failed, a returned result is that of the last call made, which
\* succeeded, and a call that raised made max_retries failing calls with a
\* wait between two calls and none after the last
RetryBounded ==
    /\ attempts_made <= max_retries
    /\ \A k \in 1..attempts_made :
          k < attempts_made => predict_outcomes[k] = "fail"
    /\ (retry_pc = "returned" /\ max_retries > 0) =>
          /\ retry_result = attempts_made
          /\ retry_result >= 1
          /\ predict_outcomes[retry_result] = "ok"
    /\ (retry_pc = "raised" /\ client_ready /\ max_retries > 0) =>
          /\ attempts_made = max_retries
          /\ \A k \in 1..max_retries : predict_outcomes[k] = "fail"
          /\ Len(waits) = max_retries - 1
          /\ retry_result = 0
    /\ (max_retries = DEFAULT_MAX_RETRIES => attempts_made <= 3)

\* C23: a predict call under retry is attempted at most max_retries = 3 times,
\* returns the result of the first attempt that succeeds without a further
\* attempt, raises after the third failure in a row, and always ends.
C23_RetryBoundedAndTerminates == []RetryBounded /\ <>RetryOver

\* three predict calls failed and the call raised
C23_Witness ==
    /\ retry_pc = "raised"
    /\ retry_fn = "generate_audio_kokoro"
    /\ max_retries = 3
    /\ attempts_made = 3
    /\ retry_result = 0
    /\ \A k \in 1..3 : predict_outcomes[k] = "fail"

----------------------------------------------------------------------------
(* Properties of run_pipeline and process_first_pending_idea (SpecPipeline) *)

\* the ids of the ideas of a file whose status is 'pending'
PendingIds(file) ==
    {file.ideas[k].id : k \in {j \in 1..Len(file.ideas) :
                                   file.ideas[j].publishing_status = "pending"}}

\* the ideas of a file, as a set
IdeaSet(file) == {file.ideas[k] : k \in 1..Len(file.ideas)}

\* the idea of ideas.json that has the id
IdeaOf(file, id) == CHOOSE idea \in IdeaSet(file) : idea.id = id

\* the idea run_pipeline selected, as ideas.json holds it now
SelectedIdea == IdeaOf(ideas_json, idea_id)

\* the ideas whose record differs from what it was at the selection
ChangedIds == {idea.id : idea \in IdeaSet(ideas_selected) \ IdeaSet(ideas_json)}

\* C21: process_first_pending_idea takes one idea, the pending idea with the
\* smallest id, which is the idea get_current_idea_id returned just before; on
\* success that idea's status is 'storyboard_generated', and no other idea
\* changes.
C21_SmallestPendingProcessed ==
    processed_id # 0 =>
        /\ processed_id = idea_id
        /\ processed_id \in PendingIds(ideas_selected)
        /\ \A id \in PendingIds(ideas_selected) : processed_id <= id
        /\ ChangedIds \subseteq {processed_id}
        /\ Len(ideas_json.ideas) = Len(ideas_selected.ideas)
        /\ run_pc = "find_storyboard" =>
              /\ ChangedIds = {processed_id}
              /\ SelectedIdea =
                    [IdeaOf(ideas_selected, idea_id) EXCEPT
                        !.publishing_status = "storyboard_generated",
                        !.final_output = "story_board"]
              /\ status_writes = <<StatusWrite(processed_id, "storyboard_generated", "")>>

\* the file lists a pending idea 3 before a pending idea 2: the storyboard was
\* made for idea 2, idea 3 is still pending
C21_Witness ==
    /\ run_pc = "find_storyboard"
    /\ Len(ideas_selected.ideas) = 3
    /\ ideas_selected.ideas[1].id = 3
    /\ ideas_selected.ideas[1].publishing_status = "pending"
    /\ PendingIds(ideas_selected) = {2, 3}
    /\ idea_id = 2
    /\ processed_id = 2
    /\ SelectedIdea.publishing_status = "storyboard_generated"
    /\ IdeaOf(ideas_json, 3).publishing_status = "pending"

C28_StatusWritesInOrder ==
    \A k \in 1..Len(status_writes) :
        /\ status_writes[k].id = idea_id
        /\ status_writes[k].status = "completed" =>
              \E j \in 1..(k - 1) : status_writes[j].status = "audio_generated"
        /\ status_writes[k].status = "audio_generated" =>
              \E j \in 1..(k - 1) : status_writes[j].status = "storyboard_generated"
        /\ \A j \in 1..(k - 1) : status_writes[j].status \notin {"error", "completed"}

====
